---- MODULE Spec2Model ----
(***************************************************************************)
(* Model of Translations/make_translation.py: the symbol index encoder,   *)
(* the symbol collector and font map builder, the suffix-merging string   *)
(* table writer and the main run.                                         *)
(*                                                                         *)
(* Characters are their code points (Python compares one-character        *)
(* strings by code point); bytes objects are sequences of 0..255.         *)
(***************************************************************************)
EXTENDS Integers, Sequences, FiniteSets, TLC

VARIABLES
    \* get_bytes_from_font_index called on one index
    enc_pc, index, enc_result,
    \* get_letter_counts' tally and get_font_map_and_table
    font_pc, lines_read, symbol_counts, symbols_by_occurrence, font_result,
    \* get_translation_strings_and_indices_text from the suffix merge on
    str_pc, str_table, backward_sorted_table, scan_i, str_remapping,
    emit_i, str_offsets, offset, write_null, blob,
    \* main: the inputs of one run, its position, output file and exit status
    run_pc, run_in, run_text, run_font, output, exit_status, run_error,
    \* get_cjk_glyph called on one glyph of the bitmap font
    glyph_pc, glyph, glyph_out,
    \* one text taken through the collector, the font map and the string encoder
    alpha_pc, alpha_text, alpha_font, alpha_out

encVars == <<enc_pc, index, enc_result>>
fontVars == <<font_pc, lines_read, symbol_counts, symbols_by_occurrence, font_result>>

strVars == <<str_pc, str_table, backward_sorted_table, scan_i, str_remapping,
             emit_i, str_offsets, offset, write_null, blob>>

runVars == <<run_pc, run_in, run_text, run_font, output, exit_status, run_error>>

vars == <<enc_pc, index, enc_result,
          font_pc, lines_read, symbol_counts, symbols_by_occurrence, font_result,
          str_pc, str_table, backward_sorted_table, scan_i, str_remapping,
          emit_i, str_offsets, offset, write_null, blob,
          run_pc, run_in, run_text, run_font, output, exit_status, run_error,
          glyph_pc, glyph, glyph_out,
          alpha_pc, alpha_text, alpha_font, alpha_out>>

glyphVars == <<glyph_pc, glyph, glyph_out>>
alphaVars == <<alpha_pc, alpha_text, alpha_font, alpha_out>>

(***************************************************************************)
(* Bounds of the model.                                                    *)
(***************************************************************************)
\* indices handed to the encoder: -MaxNegIndex .. MaxIndexInput
MaxNegIndex == 2
MaxIndexInput == 4070
\* text lines tallied by the collector, and the length of one line
MaxLines == 2
MaxLineLen == 2
\* strings of the string table, and the length of one string
MaxStrings == 3
MaxStrLen == 2
\* distinct symbols of a run's text: 0 .. MaxSmallText, and from ten below the
\* symbol limit to MaxOverLimit above it
MaxSmallText == 2
MaxOverLimit == 1
\* width and height of a source glyph's bounding box
MaxGlyphW == 2
MaxGlyphH == 2
\* characters of the one varying string of a language document
MaxTextLen == 3

(***************************************************************************)
(* get_bytes_from_font_index                                               *)
(***************************************************************************)
Returned(b) == [raised |-> "none", bytes |-> b]
Raised(e) == [raised |-> e, bytes |-> <<>>]

\* the largest index the encoder's comment lists (0xFF 0xFF)
MaxFontIndex == 4065

\* EncodePage with the leader one short (0xEF + page)
EncodePage_LeaderShort(i, page) ==
    IF page = 0
    THEN Returned(<<i>>)
    ELSE LET leader == page + 239
             value == ((i + 14) % 255) + 1
         IN IF leader > 255 \/ value > 255
            THEN Raised("ValueError")
            ELSE Returned(<<leader, value>>)

\* EncodePage with the remainder used as it is (the + 0x01 left out)
EncodePage_NoPlusOne(i, page) ==
    IF page = 0
    THEN Returned(<<i>>)
    ELSE LET leader == page + 240
             value == (i + 14) % 255
         IN IF leader > 255 \/ value > 255
            THEN Raised("ValueError")
            ELSE Returned(<<leader, value>>)

\* the body after the page test, lines 275-286
EncodePage(i, page) ==
    IF page = 0
    THEN Returned(<<i>>)
    ELSE LET leader == page + 240
             value == ((i + 14) % 255) + 1
         IN IF leader > 255 \/ value > 255
            THEN Raised("ValueError")
            ELSE Returned(<<leader, value>>)

\* get_bytes_from_font_index rejecting the last page too (page >= 0x0F)
get_bytes_from_font_index_PageOff(i) ==
    IF i < 0
    THEN Raised("ValueError")
    ELSE LET page == (i + 14) \div 255
         IN IF page >= 15
            THEN Raised("ValueError")
            ELSE EncodePage(i, page)

get_bytes_from_font_index(i) ==
    IF i < 0
    THEN Raised("ValueError")
    ELSE LET page == (i + 14) \div 255
         IN IF page > 15
            THEN Raised("ValueError")
            ELSE EncodePage(i, page)

\* The mapping the encoder's comment documents for the reader of the bytes:
\* a single byte b is index b, a pair (0xFz, v) is z * 0xFF - 15 + v.
DecodeFontBytes(b) ==
    IF Len(b) = 1 THEN b[1] ELSE (b[1] - 240) * 255 - 15 + b[2]

EncIdle ==
    /\ enc_pc = "idle"
    /\ index = 0
    /\ enc_result = Raised("pending")

FontIdle ==
    /\ font_pc = "idle"
    /\ lines_read = 0
    /\ symbol_counts = <<>>
    /\ symbols_by_occurrence = <<>>
    /\ font_result = [status |-> "pending", sym_list |-> <<>>, symbol_map |-> <<>>]

StrIdle ==
    /\ str_pc = "idle"
    /\ str_table = <<>>
    /\ backward_sorted_table = <<>>
    /\ scan_i = 0
    /\ str_remapping = <<>>
    /\ emit_i = 0
    /\ str_offsets = <<>>
    /\ offset = 0
    /\ write_null = FALSE
    /\ blob = <<>>

RunIdle ==
    /\ run_pc = "idle"
    /\ run_in = <<>>
    /\ run_text = <<>>
    /\ run_font = [status |-> "pending", sym_list |-> <<>>, symbol_map |-> <<>>]
    /\ output = <<>>
    /\ exit_status = 0 - 1
    /\ run_error = "none"

GlyphIdle ==
    /\ glyph_pc = "idle"
    /\ glyph = <<>>
    /\ glyph_out = <<>>

AlphaIdle ==
    /\ alpha_pc = "idle"
    /\ alpha_text = <<>>
    /\ alpha_font = [status |-> "pending", sym_list |-> <<>>, symbol_map |-> <<>>]
    /\ alpha_out = [status |-> "pending", bytes |-> <<>>]

EncInit ==
    /\ enc_pc = "call"
    /\ index \in (0 - MaxNegIndex) .. MaxIndexInput
    /\ enc_result = Raised("pending")
    /\ FontIdle
    /\ StrIdle
    /\ RunIdle
    /\ GlyphIdle
    /\ AlphaIdle

EncCall ==
    /\ enc_pc = "call"
    /\ enc_result' = get_bytes_from_font_index(index)
    /\ enc_pc' = "returned"
    /\ UNCHANGED index
    /\ UNCHANGED <<fontVars, strVars, runVars, glyphVars, alphaVars>>

EncNext == EncCall

SpecEnc == EncInit /\ [][EncNext]_vars

(***************************************************************************)
(* Claims about the encoder                                                *)
(***************************************************************************)
EncDone == enc_pc = "returned"

\* C1: every index 2..4065 is accepted, and decoding the bytes returned for
\* it (one byte b as b, a pair (leader, v) as (leader - 0xF0) * 255 - 15 + v)
\* gives the index back; the decoder being a function of the bytes, two
\* indices never share a byte sequence.
C1_RoundTrip ==
    (EncDone /\ index >= 2 /\ index <= MaxFontIndex) =>
        /\ enc_result.raised = "none"
        /\ Len(enc_result.bytes) \in {1, 2}
        /\ DecodeFontBytes(enc_result.bytes) = index

C1_Witness ==
    /\ EncDone
    /\ index = MaxFontIndex
    /\ enc_result = Returned(<<255, 255>>)

\* C2: no byte of the code returned for an index >= 2 is 0x00; the second
\* byte of a two-byte code is in 1..255.
C2_NoZeroByte ==
    (EncDone /\ index >= 2 /\ enc_result.raised = "none") =>
        /\ \A k \in 1 .. Len(enc_result.bytes) : enc_result.bytes[k] \in 1 .. 255
        /\ Len(enc_result.bytes) >= 1

C2_Witness ==
    /\ EncDone
    /\ index = 496
    /\ enc_result = Returned(<<242, 1>>)

\* the two-byte code the specification gives for an index
TwoByteCode(i) == <<240 + ((i + 14) \div 255), ((i + 14) % 255) + 1>>

\* C3 as stated: the switch to two bytes is at index 240.
C3_SwitchAt240 ==
    (EncDone /\ index >= 0) =>
        /\ index < 240 => enc_result = Returned(<<index>>)
        /\ (index >= 240 /\ (index + 14) \div 255 <= 15)
               => enc_result = Returned(TwoByteCode(index))
        /\ (index + 14) \div 255 > 15 => enc_result.raised = "ValueError"

\* C3 amended: the switch to two bytes is at index 241 (240 is the single
\* byte 0xF0); indices whose page exceeds 15 are rejected.
C3_SwitchAt241 ==
    (EncDone /\ index >= 0) =>
        /\ index < 241 => enc_result = Returned(<<index>>)
        /\ (index >= 241 /\ (index + 14) \div 255 <= 15)
               => enc_result = Returned(TwoByteCode(index))
        /\ (index + 14) \div 255 > 15 => enc_result.raised = "ValueError"

C3_Witness ==
    /\ EncDone
    /\ index = 240
    /\ enc_result = Returned(<<240>>)

(***************************************************************************)
(* Characters                                                              *)
(***************************************************************************)
\* code points of the characters the model names
Chr == [nl |-> 10, cr |-> 13, backslash |-> 92, n |-> 110, r |-> 114,
        one |-> 49, A |-> 65, B |-> 66, C |-> 67, D |-> 68, E |-> 69, F |-> 70,
        X |-> 19968, Y |-> 19969]

\* font_tables.get_font_map(): the symbols of the static font table (no CJK)
font_table == 32 .. 126
\* font_tables.get_small_font_map()
font_small_table == 32 .. 126
\* the code points the bitmap font has a glyph for
cjk_font == 19968 .. 40959

Range(seq) == {seq[k] : k \in 1 .. Len(seq)}

\* str.replace(old, new): the occurrences of old, left to right, not overlapping
RECURSIVE Replace(_, _, _)
Replace(s, old, new) ==
    IF Len(s) < Len(old)
    THEN s
    ELSE IF SubSeq(s, 1, Len(old)) = old
         THEN new \o Replace(SubSeq(s, Len(old) + 1, Len(s)), old, new)
         ELSE <<s[1]>> \o Replace(Tail(s), old, new)

(***************************************************************************)
(* get_letter_counts: the tally and the ordering                           *)
(***************************************************************************)
\* lines 181-182
StripLine(line) ==
    LET a == Replace(Replace(line, <<Chr.nl>>, <<>>), <<Chr.cr>>, <<>>)
    IN Replace(Replace(a, <<Chr.backslash, Chr.n>>, <<>>),
               <<Chr.backslash, Chr.r>>, <<>>)

\* symbol_counts.get(letter, 0)
CountOf(counts, letter) == IF letter \in DOMAIN counts THEN counts[letter] ELSE 0

\* lines 184-185 for the letters of one line
RECURSIVE CountLetters(_, _)
CountLetters(counts, line) ==
    IF line = <<>>
    THEN counts
    ELSE CountLetters(
             [c \in DOMAIN counts \cup {Head(line)} |->
                 IF c = Head(line) THEN CountOf(counts, c) + 1 ELSE counts[c]],
             Tail(line))

\* the sort key (kv[1], kv[0]) compared as Python compares tuples
KeyLess(counts, a, b) ==
    \/ counts[a] < counts[b]
    \/ counts[a] = counts[b] /\ a < b

\* sorted(symbol_counts.items(), key=...) reduced to the symbols
RECURSIVE SortedSymbols(_, _)
SortedSymbols(counts, S) ==
    IF S = {}
    THEN <<>>
    ELSE LET m == CHOOSE x \in S : \A y \in S \ {x} : KeyLess(counts, x, y)
         IN <<m>> \o SortedSymbols(counts, S \ {m})

Reverse(seq) == [k \in 1 .. Len(seq) |-> seq[Len(seq) + 1 - k]]

\* SymbolsByOccurrence without the reverse() of line 190
SymbolsByOccurrence_NoReverse(counts) == SortedSymbols(counts, DOMAIN counts)

\* lines 187-191
SymbolsByOccurrence(counts) == Reverse(SortedSymbols(counts, DOMAIN counts))

(***************************************************************************)
(* get_font_map_and_table                                                  *)
(***************************************************************************)
\* "0" .. "9"
forced_first_symbols == [d \in 1 .. 10 |-> 47 + d]

IsForced(x) == x \in Range(forced_first_symbols)
NormalSym(x) == ~IsForced(x) /\ x \in font_table
CjkSym(x) == ~IsForced(x) /\ x \notin font_table
InTable(x) == x \in font_table

\* the normal list without the forced digits put first
ordered_normal_sym_list_NoForced(text_list) == SelectSeq(text_list, InTable)

\* lines 316-318
ordered_normal_sym_list(text_list) ==
    forced_first_symbols \o SelectSeq(text_list, NormalSym)

\* lines 319-321
ordered_cjk_sym_list(text_list) == SelectSeq(text_list, CjkSym)

\* line 327: the most symbols a run may use (4063)
SymbolLimit == (16 * 255 - 15) - 2

\* the limit test with the largest index (4065) taken for the symbol count
TooManySymbols_Off(total) == total > (16 * 255 - 15)

\* line 327
TooManySymbols(total) == total > SymbolLimit

\* line 304
InitialSymbolMap == [c \in {Chr.nl} |-> <<1>>]

\* the first position at which the loop of lines 336-340 raises, 0 if none
FirstRaise(sym_list) ==
    LET n == Len(sym_list)
        Bad(k) == \/ sym_list[k] = Chr.nl
                  \/ \E j \in 1 .. k - 1 : sym_list[j] = sym_list[k]
                  \/ get_bytes_from_font_index(k + 1).raised # "none"
    IN IF /\ Chr.nl \notin Range(sym_list)
          /\ Cardinality(Range(sym_list)) = n
          /\ get_bytes_from_font_index(n + 1).raised = "none"
       THEN 0
       ELSE CHOOSE k \in 1 .. n : Bad(k) /\ \A j \in 1 .. k - 1 : ~Bad(j)

\* symbol_map after the loop of lines 336-340 has assigned the first k symbols
SymbolMapAfter(sym_list, k) ==
    [c \in {Chr.nl} \cup {sym_list[j] : j \in 1 .. k} |->
        IF c = Chr.nl
        THEN <<1>>
        ELSE get_bytes_from_font_index(
                 (CHOOSE j \in 1 .. k : sym_list[j] = c) + 1).bytes]

FontResult(status, sym_list, symbol_map) ==
    [status |-> status, sym_list |-> sym_list, symbol_map |-> symbol_map]

get_font_map_and_table(text_list) ==
    LET normal == ordered_normal_sym_list(text_list)
        cjk == ordered_cjk_sym_list(text_list)
        sym_list == normal \o cjk
        bad == FirstRaise(sym_list)
    IN IF TooManySymbols(Len(normal) + Len(cjk))
       THEN FontResult("exit1", <<>>, InitialSymbolMap)
       ELSE IF bad # 0
       THEN FontResult("ValueError", <<>>, SymbolMapAfter(sym_list, bad - 1))
       ELSE IF \E k \in 1 .. Len(normal) :
                   normal[k] \notin font_table \/ normal[k] \notin font_small_table
       THEN FontResult("exit1", <<>>, SymbolMapAfter(sym_list, Len(sym_list)))
       ELSE IF \E k \in 1 .. Len(cjk) : cjk[k] \notin cjk_font
       THEN FontResult("KeyError", <<>>, SymbolMapAfter(sym_list, Len(sym_list)))
       ELSE FontResult("ok", sym_list, SymbolMapAfter(sym_list, Len(sym_list)))

(***************************************************************************)
(* The collector and the font map on a text of a few lines                 *)
(***************************************************************************)
FontAlphabet == {Chr.one, Chr.A, Chr.n, Chr.backslash, Chr.X, Chr.Y}

SeqsUpTo(S, n) == UNION {[1 .. k -> S] : k \in 0 .. n}

FontInit ==
    /\ font_pc = "count"
    /\ lines_read = 0
    /\ symbol_counts = [c \in {} |-> 0]
    /\ symbols_by_occurrence = <<>>
    /\ font_result = FontResult("pending", <<>>, <<>>)
    /\ EncIdle
    /\ StrIdle
    /\ RunIdle
    /\ GlyphIdle
    /\ AlphaIdle

\* one turn of the loop of lines 180-185
CountLine ==
    /\ font_pc = "count"
    /\ lines_read < MaxLines
    /\ \E line \in SeqsUpTo(FontAlphabet, MaxLineLen) :
          symbol_counts' = CountLetters(symbol_counts, StripLine(line))
    /\ lines_read' = lines_read + 1
    /\ UNCHANGED <<font_pc, symbols_by_occurrence, font_result>>
    /\ UNCHANGED <<encVars, strVars, runVars, glyphVars, alphaVars>>

\* lines 187-191
SortSymbols ==
    /\ font_pc = "count"
    /\ symbols_by_occurrence' = SymbolsByOccurrence(symbol_counts)
    /\ font_pc' = "sorted"
    /\ UNCHANGED <<lines_read, symbol_counts, font_result>>
    /\ UNCHANGED <<encVars, strVars, runVars, glyphVars, alphaVars>>

\* write_language, line 420
BuildFontMap ==
    /\ font_pc = "sorted"
    /\ font_result' = get_font_map_and_table(symbols_by_occurrence)
    /\ font_pc' = "done"
    /\ UNCHANGED <<lines_read, symbol_counts, symbols_by_occurrence>>
    /\ UNCHANGED <<encVars, strVars, runVars, glyphVars, alphaVars>>

FontNext == CountLine \/ SortSymbols \/ BuildFontMap

SpecFont == FontInit /\ [][FontNext]_vars

(***************************************************************************)
(* Claims about the symbol table                                           *)
(***************************************************************************)
FontDone == font_pc = "done" /\ font_result.status = "ok"

\* the index a symbol of the returned table was assigned
IndexOfSym(c) == DecodeFontBytes(font_result.symbol_map[c])

\* the symbols the text gave a count other than the digits
CountedNonDigits == {c \in DOMAIN symbol_counts : ~IsForced(c)}

\* C4: in every returned symbol table the digits "0".."9" have the indices
\* 2..11 in that order (codes 0x02..0x0B), whatever their counts and whether
\* or not the text holds them; every other symbol of the list has an index
\* >= 12 (the newline entry the map starts with keeps the reserved code 1).
C4_DigitsFirst ==
    FontDone =>
        /\ Len(font_result.sym_list) >= 10
        /\ \A d \in 0 .. 9 :
              /\ font_result.sym_list[d + 1] = 48 + d
              /\ 48 + d \in DOMAIN font_result.symbol_map
              /\ font_result.symbol_map[48 + d] = <<2 + d>>
        /\ \A k \in 1 .. Len(font_result.sym_list) :
              ~IsForced(font_result.sym_list[k])
                  => IndexOfSym(font_result.sym_list[k]) >= 12
        /\ \A k \in 1 .. Len(font_result.sym_list) :
              IndexOfSym(font_result.sym_list[k]) = k + 1

\* a digit that is counted less often than a letter, and digits not counted
C4_Witness ==
    /\ FontDone
    /\ CountOf(symbol_counts, Chr.one) = 1
    /\ CountOf(symbol_counts, Chr.A) = 2
    /\ CountOf(symbol_counts, 48) = 0
    /\ IndexOfSym(Chr.one) = 3
    /\ IndexOfSym(Chr.A) = 12

\* C5 as stated: for every two counted symbols that are not digits, the one
\* counted strictly more often has an index <= the other's.
C5_FrequencyOrderAll ==
    FontDone =>
        \A a \in CountedNonDigits : \A b \in CountedNonDigits :
            symbol_counts[a] > symbol_counts[b] => IndexOfSym(a) <= IndexOfSym(b)

\* C5 amended: the same, for every pair except an extended symbol counted
\* more often than a symbol of the static font table (extended symbols come
\* after all the symbols of the table).
C5_FrequencyOrderInClass ==
    FontDone =>
        \A a \in CountedNonDigits : \A b \in CountedNonDigits :
            (symbol_counts[a] > symbol_counts[b] /\ (InTable(a) \/ ~InTable(b)))
                => IndexOfSym(a) <= IndexOfSym(b)

\* two extended symbols and two table symbols, each pair with different counts
C5_Witness ==
    /\ FontDone
    /\ CountOf(symbol_counts, Chr.X) = 2
    /\ CountOf(symbol_counts, Chr.Y) = 1
    /\ CountOf(symbol_counts, Chr.A) = 1
    /\ IndexOfSym(Chr.A) < IndexOfSym(Chr.X)
    /\ IndexOfSym(Chr.X) < IndexOfSym(Chr.Y)

(***************************************************************************)
(* convert_string_bytes                                                    *)
(***************************************************************************)
\* lines 389-396: status "exit1" is the sys.exit(1) of a missing symbol
convert_string_bytes(symbol_conversion_table, text) ==
    LET t == Replace(Replace(text, <<Chr.backslash, Chr.r>>, <<>>),
                     <<Chr.backslash, Chr.n>>, <<Chr.nl>>)
        F[k \in 0 .. Len(t)] ==
            IF k = 0 THEN <<>> ELSE F[k - 1] \o symbol_conversion_table[t[k]]
    IN IF \E k \in 1 .. Len(t) : t[k] \notin DOMAIN symbol_conversion_table
       THEN [status |-> "exit1", bytes |-> <<>>]
       ELSE [status |-> "ok", bytes |-> F[Len(t)]]

(***************************************************************************)
(* get_translation_strings_and_indices_text: suffix merge and string table *)
(* Strings are numbered from 1 (str_index 0 of the code is 1 here); a      *)
(* remapping with str_index 0 is the code's None.  Offsets are the code's. *)
(***************************************************************************)
\* the symbol table the strings are converted with: "A".."F" have the codes
\* of the indices 65..70, X the two-byte code of index 440
StrSymbolTable ==
    [c \in {Chr.nl, Chr.A, Chr.B, Chr.C, Chr.D, Chr.E, Chr.F, Chr.X} |->
        IF c = Chr.nl THEN <<1>>
        ELSE IF c = Chr.X THEN get_bytes_from_font_index(440).bytes
        ELSE get_bytes_from_font_index(c).bytes]

Converted(text) == convert_string_bytes(StrSymbolTable, text).bytes

\* bytes.startswith
StartsWith(b, prefix) ==
    Len(prefix) <= Len(b) /\ SubSeq(b, 1, Len(prefix)) = prefix

\* b1 < b2 as Python compares bytes
BytesLess(b1, b2) ==
    \E k \in 1 .. Len(b2) :
        /\ k - 1 <= Len(b1)
        /\ SubSeq(b1, 1, k - 1) = SubSeq(b2, 1, k - 1)
        /\ (k > Len(b1) \/ b1[k] < b2[k])

\* sorted(..., key=lambda x: x[2]): stable, so equal keys keep their order
RECURSIVE SortedByKey(_, _)
SortedByKey(key, S) ==
    IF S = {}
    THEN <<>>
    ELSE LET m == CHOOSE x \in S : \A y \in S \ {x} :
                      \/ BytesLess(key[x], key[y])
                      \/ key[x] = key[y] /\ x < y
         IN <<m>> \o SortedByKey(key, S \ {m})

\* lines 590-596
BackwardSortedTable(table) ==
    LET key == [k \in 1 .. Len(table) |-> Reverse(Converted(table[k]))]
        order == SortedByKey(key, 1 .. Len(table))
    IN [k \in 1 .. Len(table) |-> [str_index |-> order[k], rev |-> key[order[k]]]]

\* the while loop stopping at the first later entry that starts with converted
WhileJ_Nearest(sorted, converted, j) ==
    IF j + 1 > Len(sorted)
    THEN 0
    ELSE IF StartsWith(sorted[j + 1].rev, converted) THEN j + 1 ELSE j

\* lines 599-601: the j the while loop leaves, 0 when backward_sorted_table[j + 1]
\* is read past the end of the list (IndexError)
RECURSIVE WhileJ(_, _, _)
WhileJ(sorted, converted, j) ==
    IF j + 1 > Len(sorted)
    THEN 0
    ELSE IF StartsWith(sorted[j + 1].rev, converted)
         THEN WhileJ(sorted, converted, j + 1)
         ELSE j

NoRemap == [str_index |-> 0, str_start_offset |-> 0]

\* the start offset taken from the lengths of the texts, not of their bytes
StartOffset_Chars(sorted, j, i) ==
    Len(str_table[sorted[j].str_index]) - Len(str_table[sorted[i].str_index])

\* line 605
StartOffset(sorted, j, i) == Len(sorted[j].rev) - Len(sorted[i].rev)

\* the offset moved on by the bytes alone, the terminator forgotten
NextOffset_NoNull(off, converted_bytes) == off + Len(converted_bytes)

\* line 650
NextOffset(off, converted_bytes) == off + Len(converted_bytes) + 1

StrAlphabet == {Chr.A, Chr.X}

\* the tables of the bounded search
BoundedTables == SeqsUpTo(SeqsUpTo(StrAlphabet, MaxStrLen), MaxStrings)

StrABCDEF == <<Chr.A, Chr.B, Chr.C, Chr.D, Chr.E, Chr.F>>
StrDEF == <<Chr.D, Chr.E, Chr.F>>

\* further tables: the two strings of the specification's example in both
\* orders, and tables of four strings with a string that is the suffix of two
\* unrelated strings, with a chain of suffixes, and with equal strings
NamedTables ==
    { <<StrABCDEF, StrDEF>>, <<StrDEF, StrABCDEF>>,
      <<StrABCDEF, StrDEF, <<Chr.X>>>>, <<StrDEF, <<Chr.X>>, StrABCDEF>>,
      <<<<Chr.A>>, <<Chr.X, Chr.A>>, <<Chr.A, Chr.A>>, <<Chr.X>>>>,
      <<<<Chr.A, Chr.A>>, <<Chr.A>>, <<Chr.X>>, <<Chr.X, Chr.A>>>>,
      <<<<Chr.A>>, <<Chr.A, Chr.A>>, <<Chr.X, Chr.A, Chr.A>>, <<Chr.X>>>>,
      <<<<Chr.A>>, <<Chr.X>>, <<Chr.A>>, <<Chr.A>>>> }

StrInit ==
    /\ str_pc = "sort"
    /\ str_table \in BoundedTables \cup NamedTables
    /\ backward_sorted_table = <<>>
    /\ scan_i = 0
    /\ str_remapping = <<>>
    /\ emit_i = 0
    /\ str_offsets = <<>>
    /\ offset = 0
    /\ write_null = FALSE
    /\ blob = <<>>
    /\ EncIdle
    /\ FontIdle
    /\ RunIdle
    /\ GlyphIdle
    /\ AlphaIdle

\* lines 590-597
SortTable ==
    /\ str_pc = "sort"
    /\ backward_sorted_table' = BackwardSortedTable(str_table)
    /\ str_remapping' = [k \in 1 .. Len(str_table) |-> NoRemap]
    /\ scan_i' = 1
    /\ str_pc' = "scan"
    /\ UNCHANGED <<str_table, emit_i, str_offsets, offset, write_null, blob>>
    /\ UNCHANGED <<encVars, fontVars, runVars, glyphVars, alphaVars>>

\* one turn of the for loop of lines 598-606
ScanStep ==
    /\ str_pc = "scan"
    /\ scan_i <= Len(backward_sorted_table) - 1
    /\ LET i == scan_i
           j == WhileJ(backward_sorted_table, backward_sorted_table[i].rev, i)
       IN IF j = 0
          THEN /\ str_pc' = "IndexError"
               /\ UNCHANGED <<scan_i, str_remapping>>
          ELSE /\ str_remapping' =
                     IF j # i
                     THEN [str_remapping EXCEPT
                              ![backward_sorted_table[i].str_index] =
                                  [str_index |-> backward_sorted_table[j].str_index,
                                   str_start_offset |->
                                       StartOffset(backward_sorted_table, j, i)]]
                     ELSE str_remapping
               /\ scan_i' = scan_i + 1
               /\ UNCHANGED str_pc
    /\ UNCHANGED <<str_table, backward_sorted_table, emit_i, str_offsets,
                   offset, write_null, blob>>
    /\ UNCHANGED <<encVars, fontVars, runVars, glyphVars, alphaVars>>

\* the for loop of lines 598-606 is over; lines 609-612
ScanEnd ==
    /\ str_pc = "scan"
    /\ scan_i > Len(backward_sorted_table) - 1
    /\ str_offsets' = [k \in 1 .. Len(str_table) |-> 0 - 1]
    /\ offset' = 0
    /\ write_null' = FALSE
    /\ blob' = <<>>
    /\ emit_i' = 1
    /\ str_pc' = "emit"
    /\ UNCHANGED <<str_table, backward_sorted_table, scan_i, str_remapping>>
    /\ UNCHANGED <<encVars, fontVars, runVars, glyphVars, alphaVars>>

\* lines 620-622
StrUsedBy(i) ==
    {j \in 1 .. Len(str_table) : j = i \/ str_remapping[j].str_index = i}

\* one turn of the for loop of lines 613-650
EmitStep ==
    /\ str_pc = "emit"
    /\ emit_i <= Len(str_table)
    /\ LET i == emit_i
           converted_bytes == Converted(str_table[i])
       IN IF str_remapping[i] # NoRemap
          THEN UNCHANGED <<str_offsets, offset, write_null, blob>>
          ELSE /\ write_null' = TRUE
               /\ blob' = (IF write_null THEN blob \o <<0>> ELSE blob)
                              \o converted_bytes
               /\ str_offsets' =
                     [j \in 1 .. Len(str_table) |->
                         IF j = i THEN offset
                         ELSE IF j \in StrUsedBy(i)
                              THEN offset + str_remapping[j].str_start_offset
                              ELSE str_offsets[j]]
               /\ offset' = NextOffset(offset, converted_bytes)
    /\ emit_i' = emit_i + 1
    /\ UNCHANGED <<str_pc, str_table, backward_sorted_table, scan_i, str_remapping>>
    /\ UNCHANGED <<encVars, fontVars, runVars, glyphVars, alphaVars>>

\* line 651 closes the array, whose last string literal the compiler ends with
\* 0x00; lines 653-676 look up the offset of every string (get_offset)
EmitEnd ==
    /\ str_pc = "emit"
    /\ emit_i > Len(str_table)
    /\ blob' = IF write_null THEN blob \o <<0>> ELSE blob
    /\ str_pc' = IF \E k \in 1 .. Len(str_table) : str_offsets[k] < 0
                 THEN "AssertionError"
                 ELSE "done"
    /\ UNCHANGED <<str_table, backward_sorted_table, scan_i, str_remapping,
                   emit_i, str_offsets, offset, write_null>>
    /\ UNCHANGED <<encVars, fontVars, runVars, glyphVars, alphaVars>>

StrNext == SortTable \/ ScanStep \/ ScanEnd \/ EmitStep \/ EmitEnd

SpecStr == StrInit /\ [][StrNext]_vars

(***************************************************************************)
(* Claims about the string table                                           *)
(***************************************************************************)
StrDone == str_pc = "done"
Scanned == str_pc \in {"scan", "IndexError", "emit", "AssertionError", "done"}

StrIds == 1 .. Len(str_table)
Enc(s) == Converted(str_table[s])
IsRoot(s) == str_remapping[s] = NoRemap
TargetOf(s) == str_remapping[s].str_index

\* a is a suffix of b
IsSuffix(a, b) ==
    Len(a) <= Len(b) /\ SubSeq(b, Len(b) - Len(a) + 1, Len(b)) = a

\* the bytes of the blob from offset off up to the next 0x00
CStringAt(off) ==
    LET end == CHOOSE e \in off + 1 .. Len(blob) :
                   blob[e] = 0 /\ \A k \in off + 1 .. e - 1 : blob[k] # 0
    IN SubSeq(blob, off + 1, end - 1)

\* the roots' bytes in discovery order, each followed by 0x00
RootsBlob ==
    LET F[k \in 0 .. Len(str_table)] ==
            IF k = 0 THEN <<>>
            ELSE IF IsRoot(k) THEN F[k - 1] \o Enc(k) \o <<0>> ELSE F[k - 1]
    IN F[Len(str_table)]

C7_ExampleCompletes ==
    str_table \in {<<StrABCDEF, StrDEF>>, <<StrDEF, StrABCDEF>>} =>
        /\ str_pc # "IndexError"
        /\ StrDone => /\ blob = Enc(1) \o <<0>> \/ blob = Enc(2) \o <<0>>
                      /\ Len(blob) = 7

\* C8: every string is a root or is remapped to one other string that is a
\* root: no string is remapped to itself and no target is remapped; this holds
\* from the start of the scan on, also with equal strings in the table.
C8_OneHop ==
    Scanned =>
        \A s \in StrIds :
            ~IsRoot(s) =>
                /\ TargetOf(s) \in StrIds \ {s}
                /\ IsRoot(TargetOf(s))

\* three equal strings: two are remapped to the third
C8_Witness ==
    /\ StrDone
    /\ str_table = <<<<Chr.A>>, <<Chr.X>>, <<Chr.A>>, <<Chr.A>>>>
    /\ TargetOf(1) = 4
    /\ TargetOf(3) = 4
    /\ IsRoot(4)

\* C9: get_offset's assertion never fails, and on completion every string has
\* an offset >= 0, the blob is the roots' bytes in discovery order each
\* followed by one 0x00, and the bytes of the blob from a string's offset up
\* to the next 0x00 are the string's own bytes.
C9_Emission ==
    /\ str_pc # "AssertionError"
    /\ StrDone =>
          /\ blob = RootsBlob
          /\ \A s \in StrIds :
                /\ str_offsets[s] >= 0
                /\ str_offsets[s] < Len(blob)
                /\ CStringAt(str_offsets[s]) = Enc(s)

\* two roots after the first, and an alias that starts inside its root
C9_Witness ==
    /\ StrDone
    /\ str_table = <<<<Chr.A>>, <<Chr.X, Chr.A>>, <<Chr.A, Chr.A>>, <<Chr.X>>>>
    /\ blob = <<241, 200, 65, 0, 65, 65, 0, 241, 200, 0>>
    /\ str_offsets[1] = 2

(***************************************************************************)
(* main: one run of the program                                            *)
(***************************************************************************)
\* str.upper on ASCII letters
Upper(str) == [k \in 1 .. Len(str) |->
                  IF str[k] \in 97 .. 122 THEN str[k] - 32 ELSE str[k]]

\* f"translation_{lang_code}.json", line 42
TranslationFilename(lang_code) ==
    <<116, 114, 97, 110, 115, 108, 97, 116, 105, 111, 110, 95>>
        \o lang_code \o <<46, 106, 115, 111, 110>>

\* "(missing)", line 65
MissingCode == <<40, 109, 105, 115, 115, 105, 110, 103, 41>>

\* lines 58-71: TRUE when the ValueError is raised; a document without the
\* languageCode key has content_code = MissingCode
validate_langcode_raises(filename, content_code) ==
    LET lang_code == Upper(SubSeq(filename, 13, Len(filename) - 5))
    IN lang_code # content_code

\* language codes of the model: "EN", "en", "DE"
LangCodes == {<<69, 78>>, <<101, 110>>, <<68, 69>>}

\* the symbols a document's text comes to (get_letter_counts' result): a
\* letter, a digit, then extended symbols
RunText(n) ==
    [k \in 1 .. n |-> IF k = 1 THEN Chr.A ELSE IF k = 2 THEN Chr.one ELSE Chr.X + k]

RunSymbolCounts ==
    (0 .. MaxSmallText) \cup ((SymbolLimit - 10) .. (SymbolLimit - 9 + MaxOverLimit))

RunInputs ==
    [version_file : {"present", "absent"},
     lang_file : {"ok", "bad_json"},
     languageCode : {<<69, 78>>, <<101, 110>>},
     content_code : LangCodes \cup {MissingCode},
     n_symbols : RunSymbolCounts]

RunInit ==
    /\ run_pc = "parse_args"
    /\ run_in \in RunInputs
    /\ run_text = <<>>
    /\ run_font = FontResult("pending", <<>>, <<>>)
    /\ output = <<>>
    /\ exit_status = 0 - 1
    /\ run_error = "none"
    /\ EncIdle
    /\ FontIdle
    /\ StrIdle
    /\ GlyphIdle
    /\ AlphaIdle

Exit(status, error) ==
    /\ run_pc' = "exited"
    /\ exit_status' = status
    /\ run_error' = error

\* line 721: argparse opens the target file for writing
ParseArgs ==
    /\ run_pc = "parse_args"
    /\ output' = <<>>
    /\ run_pc' = "read_version"
    /\ UNCHANGED <<run_in, run_text, run_font, exit_status, run_error>>
    /\ UNCHANGED <<encVars, fontVars, strVars, glyphVars, alphaVars>>

\* lines 722-729
ReadVersion ==
    /\ run_pc = "read_version"
    /\ IF run_in.version_file = "absent"
       THEN Exit(1, "SystemExit")
       ELSE /\ run_pc' = "read_translation"
            /\ UNCHANGED <<exit_status, run_error>>
    /\ UNCHANGED <<run_in, run_text, run_font, output>>
    /\ UNCHANGED <<encVars, fontVars, strVars, glyphVars, alphaVars>>

\* line 731, read_translation: an uncaught ValueError ends Python with status 1
ReadTranslation ==
    /\ run_pc = "read_translation"
    /\ IF run_in.lang_file = "bad_json"
       THEN Exit(2, "SystemExit")
       ELSE IF validate_langcode_raises(TranslationFilename(run_in.languageCode),
                                        run_in.content_code)
       THEN Exit(1, "ValueError")
       ELSE /\ run_pc' = "write_start"
            /\ UNCHANGED <<exit_status, run_error>>
    /\ UNCHANGED <<run_in, run_text, run_font, output>>
    /\ UNCHANGED <<encVars, fontVars, strVars, glyphVars, alphaVars>>

\* lines 732-734: write_start writes the file's header
WriteStart ==
    /\ run_pc = "write_start"
    /\ output' = output \o <<"start">>
    /\ run_pc' = "get_letter_counts"
    /\ UNCHANGED <<run_in, run_text, run_font, exit_status, run_error>>
    /\ UNCHANGED <<encVars, fontVars, strVars, glyphVars, alphaVars>>

\* write_language, line 418
GetLetterCounts ==
    /\ run_pc = "get_letter_counts"
    /\ run_text' = RunText(run_in.n_symbols)
    /\ run_pc' = "get_font_map_and_table"
    /\ UNCHANGED <<run_in, run_font, output, exit_status, run_error>>
    /\ UNCHANGED <<encVars, fontVars, strVars, glyphVars, alphaVars>>

\* write_language, line 420
GetFontMap ==
    /\ run_pc = "get_font_map_and_table"
    /\ run_font' = get_font_map_and_table(run_text)
    /\ IF run_font'.status = "ok"
       THEN /\ run_pc' = "write_font_table"
            /\ UNCHANGED <<exit_status, run_error>>
       ELSE Exit(1, IF run_font'.status = "exit1" THEN "SystemExit"
                    ELSE run_font'.status)
    /\ UNCHANGED <<run_in, run_text, output>>
    /\ UNCHANGED <<encVars, fontVars, strVars, glyphVars, alphaVars>>

\* write_language, lines 421-430
WriteFontTable ==
    /\ run_pc = "write_font_table"
    /\ output' = output \o <<"font_table">>
    /\ run_pc' = "write_common"
    /\ UNCHANGED <<run_in, run_text, run_font, exit_status, run_error>>
    /\ UNCHANGED <<encVars, fontVars, strVars, glyphVars, alphaVars>>

\* write_language, lines 432-438: convert_string ends the run with status 1
\* on a character without a code
WriteCommon ==
    /\ run_pc = "write_common"
    /\ \E outcome \in {"ok", "SystemExit"} :
          IF outcome = "ok"
          THEN /\ output' = output \o <<"common">>
               /\ run_pc' = "write_strings"
               /\ UNCHANGED <<exit_status, run_error>>
          ELSE /\ Exit(1, outcome)
               /\ UNCHANGED output
    /\ UNCHANGED <<run_in, run_text, run_font>>
    /\ UNCHANGED <<encVars, fontVars, strVars, glyphVars, alphaVars>>

\* write_language, lines 440-445: the string table's scan may raise
\* IndexError, the conversion may end the run
WriteStrings ==
    /\ run_pc = "write_strings"
    /\ \E outcome \in {"ok", "SystemExit", "IndexError"} :
          IF outcome = "ok"
          THEN /\ output' = output \o <<"strings">>
               /\ run_pc' = "write_sanity"
               /\ UNCHANGED <<exit_status, run_error>>
          ELSE /\ Exit(1, outcome)
               /\ UNCHANGED output
    /\ UNCHANGED <<run_in, run_text, run_font>>
    /\ UNCHANGED <<encVars, fontVars, strVars, glyphVars, alphaVars>>

\* write_language, lines 447-448, and the end of main
WriteSanity ==
    /\ run_pc = "write_sanity"
    /\ output' = output \o <<"sanity_checks">>
    /\ Exit(0, "none")
    /\ UNCHANGED <<run_in, run_text, run_font>>
    /\ UNCHANGED <<encVars, fontVars, strVars, glyphVars, alphaVars>>

RunNext ==
    \/ ParseArgs \/ ReadVersion \/ ReadTranslation \/ WriteStart
    \/ GetLetterCounts \/ GetFontMap \/ WriteFontTable \/ WriteCommon
    \/ WriteStrings \/ WriteSanity

SpecRun == RunInit /\ [][RunNext]_vars

(***************************************************************************)
(* Claims about the run                                                    *)
(***************************************************************************)
\* the distinct symbols a run needs: those of its text and the ten digits
RequiredSymbols == Range(RunText(run_in.n_symbols)) \cup Range(forced_first_symbols)

PastFontMap ==
    run_font.status # "pending"

\* C10 as stated: a run that needs more than 4063 distinct symbols ends with
\* status 1 before any symbol has a code, and nothing is in the output file.
C10_AbortNothingWritten ==
    (PastFontMap /\ Cardinality(RequiredSymbols) > 4063) =>
        /\ run_pc = "exited"
        /\ exit_status = 1
        /\ run_font.symbol_map = InitialSymbolMap
        /\ output = <<>>

\* C10 amended: a run that needs more than 4063 distinct symbols ends with
\* status 1 before any symbol has a code; the output file then holds the
\* header write_start wrote and nothing else.
C10_AbortHeaderOnly ==
    (PastFontMap /\ Cardinality(RequiredSymbols) > 4063) =>
        /\ run_pc = "exited"
        /\ exit_status = 1
        /\ run_error = "SystemExit"
        /\ run_font.symbol_map = InitialSymbolMap
        /\ output = <<"start">>

C10_Witness ==
    /\ run_pc = "exited"
    /\ exit_status = 1
    /\ run_font.status = "exit1"
    /\ Cardinality(RequiredSymbols) = 4064
    /\ output = <<"start">>

\* read_translation has loaded the document and validated its language code
ValidateReached ==
    /\ run_in.version_file = "present"
    /\ run_in.lang_file = "ok"
    /\ run_pc \notin {"parse_args", "read_version", "read_translation"}

\* the run ended in validate_langcode_matches_content's ValueError
LangCodeRejected ==
    /\ run_pc = "exited"
    /\ run_error = "ValueError"
    /\ run_font.status = "pending"

EqualIgnoringCase(a, b) == Upper(a) = Upper(b)

\* C11: the document of translation_<CODE>.json is accepted exactly when its
\* languageCode equals <CODE> ignoring letter case (a missing field is
\* rejected), and a rejection comes before any symbol processing.
C11_CaseInsensitiveMatch ==
    ValidateReached =>
        /\ LangCodeRejected <=>
               ~EqualIgnoringCase(run_in.languageCode, run_in.content_code)
        /\ LangCodeRejected => (run_text = <<>> /\ output = <<>>)

\* C12: a malformed document (one that does not parse, or whose languageCode
\* differs from the file name's code by more than case) ends the run with
\* status 2; resource failures end it with status 1, success with status 0.
C12_ExitStatuses ==
    /\ (run_pc = "exited" /\ run_in.version_file = "present"
            /\ run_in.lang_file = "bad_json") => exit_status = 2
    /\ (ValidateReached
            /\ ~EqualIgnoringCase(run_in.languageCode, run_in.content_code))
           => (run_pc = "exited" /\ exit_status = 2)
    /\ (run_pc = "exited" /\ run_in.version_file = "absent") => exit_status = 1
    /\ (run_pc = "exited" /\ run_font.status \notin {"pending", "ok"})
           => exit_status = 1
    /\ (run_pc = "exited" /\ run_error = "none") => exit_status = 0

(***************************************************************************)
(* get_cjk_glyph                                                           *)
(* A glyph is its bounding box (left, bottom, w, h) and its rows, the      *)
(* bottom-most first, each an integer whose lowest bit is the right-most   *)
(* pixel.                                                                  *)
(***************************************************************************)
RECURSIVE Pow2(_)
Pow2(k) == IF k = 0 THEN 1 ELSE 2 * Pow2(k - 1)

\* v & (1 << k)
BitSet(v, k) == (v \div Pow2(k)) % 2 = 1

\* get_cell with the baseline 4px above the bottom edge
get_cell_Baseline4(g, x, y) ==
    LET adj_x == x - g.left
        adj_y == y - (16 - g.h - g.bottom - 4)
    IN IF adj_x < 0 \/ adj_x >= g.w
       THEN FALSE
       ELSE IF adj_y < 0 \/ adj_y >= g.h
       THEN FALSE
       ELSE BitSet(g.data[(g.h - adj_y - 1) + 1], g.w - adj_x - 1)

\* lines 205-220; data[k] of the code is g.data[k + 1]
get_cell(g, x, y) ==
    LET adj_x == x - g.left
        adj_y == y - (16 - g.h - g.bottom - 3)
    IN IF adj_x < 0 \/ adj_x >= g.w
       THEN FALSE
       ELSE IF adj_y < 0 \/ adj_y >= g.h
       THEN FALSE
       ELSE BitSet(g.data[(g.h - adj_y - 1) + 1], g.w - adj_x - 1)

\* lines 230-233: the byte of column c of a block
ColumnByte(g, c, block) ==
    LET B[r \in 0 .. 8] ==
            IF r = 0 THEN 0
            ELSE IF get_cell(g, c, (r - 1) + 8 * block)
                 THEN B[r - 1] + Pow2(r - 1)
                 ELSE B[r - 1]
    IN B[8]

\* f"0x{b:02X},": the two hexadecimal digits written for a byte
HexDigits(b) == <<b \div 16, b % 16>>

\* lines 227-235: the 24 items of the returned text
get_cjk_glyph(g) ==
    [k \in 1 .. 24 |-> HexDigits(ColumnByte(g, (k - 1) % 12, (k - 1) \div 12))]

LeftOffsets == {0 - 1, 0, 1, 11}
BottomOffsets == {0 - 4, 0 - 1, 0, 12, 13}

Glyphs ==
    UNION { [left : LeftOffsets, bottom : BottomOffsets, w : {gw}, h : {gh},
             data : [1 .. gh -> 0 .. Pow2(gw) - 1]] :
            <<gw, gh>> \in (1 .. MaxGlyphW) \X (1 .. MaxGlyphH) }

GlyphInit ==
    /\ glyph_pc = "call"
    /\ glyph \in Glyphs
    /\ glyph_out = <<>>
    /\ EncIdle
    /\ FontIdle
    /\ StrIdle
    /\ RunIdle
    /\ AlphaIdle

GlyphCall ==
    /\ glyph_pc = "call"
    /\ glyph_out' = get_cjk_glyph(glyph)
    /\ glyph_pc' = "returned"
    /\ UNCHANGED glyph
    /\ UNCHANGED <<encVars, fontVars, strVars, runVars, alphaVars>>

GlyphNext == GlyphCall

SpecGlyph == GlyphInit /\ [][GlyphNext]_vars

(***************************************************************************)
(* Claims about the glyph                                                  *)
(***************************************************************************)
\* the byte the returned text holds at position k (from 0)
OutByte(k) == 16 * glyph_out[k + 1][1] + glyph_out[k + 1][2]

\* the bit of destination cell (x, y)
OutBit(x, y) == BitSet(OutByte(12 * (y \div 8) + x), y % 8)

\* the source pixel in column col from the left and row row from the bottom
SourceLit(col, row) ==
    /\ col \in 0 .. glyph.w - 1
    /\ row \in 0 .. glyph.h - 1
    /\ BitSet(glyph.data[row + 1], glyph.w - 1 - col)

\* C13: the output is 24 bytes, and the bit of cell (x, y) (byte
\* 12 * (y div 8) + x, bit y mod 8) is set exactly when the source pixel in
\* column x - left and row 12 - bottom - y from the bottom is in the bounding
\* box and lit; with bottom offset 0 the rows 13..15 are blank.
C13_GlyphPlacement ==
    glyph_pc = "returned" =>
        /\ Len(glyph_out) = 24
        /\ \A k \in 1 .. 24 : glyph_out[k] \in (0 .. 15) \X (0 .. 15)
        /\ \A x \in 0 .. 11 : \A y \in 0 .. 15 :
              OutBit(x, y) <=> SourceLit(x - glyph.left, 12 - glyph.bottom - y)
        /\ glyph.bottom = 0 =>
              \A x \in 0 .. 11 : \A y \in 13 .. 15 : ~OutBit(x, y)

\* a 2x2 glyph at bottom offset 0 and left offset 11: its lowest row is on
\* cell row 12, its right column is outside the cell
C13_Witness ==
    /\ glyph_pc = "returned"
    /\ glyph = [left |-> 11, bottom |-> 0, w |-> 2, h |-> 2, data |-> <<3, 2>>]
    /\ OutBit(11, 12)
    /\ OutBit(11, 11)
    /\ OutByte(23) = 24
    /\ \A k \in 0 .. 22 : OutByte(k) = 0

(***************************************************************************)
(* The collector and the string encoder on one string of a document        *)
(* write_language builds the symbol table from get_letter_counts, and the  *)
(* string table then converts the same string with convert_string_bytes.   *)
(***************************************************************************)
TextAlphabet == {Chr.A, Chr.n, Chr.r, Chr.backslash, Chr.nl, Chr.cr}

AlphaInit ==
    /\ alpha_pc = "collect"
    /\ alpha_text \in SeqsUpTo(TextAlphabet, MaxTextLen)
    /\ alpha_font = FontResult("pending", <<>>, <<>>)
    /\ alpha_out = [status |-> "pending", bytes |-> <<>>]
    /\ EncIdle
    /\ FontIdle
    /\ StrIdle
    /\ RunIdle
    /\ GlyphIdle

\* write_language, lines 418-420
AlphaCollect ==
    /\ alpha_pc = "collect"
    /\ alpha_font' = get_font_map_and_table(
                         SymbolsByOccurrence(
                             CountLetters([c \in {} |-> 0], StripLine(alpha_text))))
    /\ alpha_pc' = "collected"
    /\ UNCHANGED <<alpha_text, alpha_out>>
    /\ UNCHANGED <<encVars, fontVars, strVars, runVars, glyphVars>>

\* line 592: the string is converted with the table of the font map
AlphaConvert ==
    /\ alpha_pc = "collected"
    /\ alpha_font.status = "ok"
    /\ alpha_out' = convert_string_bytes(alpha_font.symbol_map, alpha_text)
    /\ alpha_pc' = "converted"
    /\ UNCHANGED <<alpha_text, alpha_font>>
    /\ UNCHANGED <<encVars, fontVars, strVars, runVars, glyphVars>>

AlphaNext == AlphaCollect \/ AlphaConvert

SpecAlpha == AlphaInit /\ [][AlphaNext]_vars

(***************************************************************************)
(* Claims about the alphabet                                               *)
(***************************************************************************)
\* C14: every character the string encoder meets has a code in the symbol
\* table built from the collector's letters, so the conversion of a string
\* never stops with "Missing font definition".
C14_NoMissingFont ==
    alpha_pc = "converted" => alpha_out.status = "ok"

====
